---- MODULE Spec2Model ----
(***************************************************************************)
(* Paper assignment: optimize_assignment (paper_assignment.py) and         *)
(* assign_papers (paper_assignment_complete.py), with their callers main   *)
(* and run_assignment.                                                     *)
(*                                                                         *)
(* A run is one call: the caller hands teams_data (a list of team records) *)
(* to the core, which collects the papers, builds the bid matrix, builds   *)
(* the binary program, calls the backend and extracts the assignments.     *)
(*                                                                         *)
(* Paper identifiers are strings in the program and sorted(...) orders     *)
(* them lexicographically; here paper k stands for the k-th identifier in  *)
(* lexicographic order, so that < on papers is the program's sort order.   *)
(* Bids are floats in the program; here they are integers, and sums are    *)
(* exact.  A solved value v of a binary variable is 0 or 1 and the         *)
(* program's test "v > 0.5" is 2*v > 1.  The 'members' field of a team     *)
(* record is copied to the output and used nowhere else; it is left out.   *)
(* Team names are strings in the program, used only as dictionary keys;    *)
(* here team name k is a number, and a run's names are numbered in order   *)
(* of first appearance (the k-th record carries a name already seen or the *)
(* next unused one), which covers every pattern of equal and distinct      *)
(* names.  The records are read one file at a time, as load_all_bids and   *)
(* run_assignment do; a run may stop reading after any number of files.    *)
(* The backend (model.optimize()) is an exact solver of the binary program *)
(* it is given: it reports INFEASIBLE when no 0/1 valuation satisfies the  *)
(* constraints and otherwise OPTIMAL with some valuation of greatest       *)
(* objective value; which one, when several are best, is its choice.       *)
(***************************************************************************)
EXTENDS Integers, Sequences, FiniteSets, TLC

\* ---------------------------------------------------------------- bounds
\* team records (bid files) of a run
MaxTeams == 2
\* distinct paper identifiers
MaxPapers == 2
\* largest bid
MaxBid == 1
\* bid rows read over all the files of a run
MaxBidRows == 3

TeamIds == 1..MaxTeams
PaperIds == 1..MaxPapers
BidValues == 0..MaxBid

\* ---------------------------------------------------------------- inputs
\* a bids dict: paper -> bid, for the papers the team's file gives a bid for
BidDicts == UNION {[S -> BidValues] : S \in SUBSET PaperIds}

TeamRecords == [team_name : TeamIds, bids : BidDicts]

\* the largest team name among the records read so far (0 when there are none)
MaxName(s) == IF s = <<>> THEN 0
              ELSE CHOOSE m \in {s[i].team_name : i \in DOMAIN s} :
                       \A i \in DOMAIN s : s[i].team_name <= m

VARIABLES
    variant,      \* "main": main -> optimize_assignment; "complete": run_assignment -> assign_papers
    teams_data,   \* the caller's list of team records
    pc,           \* position of the run
    all_papers,   \* sorted list of the papers any team names
    teams,        \* list of team names, in input order
    bid_matrix,   \* dict team name -> dict paper -> bid
    numVars,      \* number of variables added to the backend model
    x,            \* dict (team name, paper) -> backend variable
    objective,    \* list of terms coef * var
    constrs,      \* list of linear constraints
    status,       \* backend model status
    X,            \* solved value of every backend variable
    objVal,       \* backend objective value
    console,      \* last message the core printed
    ret           \* what reaches the caller

vars == <<variant, teams_data, pc, all_papers, teams, bid_matrix, numVars, x,
          objective, constrs, status, X, objVal, console, ret>>

\* ---------------------------------------------------------------- helpers
Range(s) == {s[i] : i \in DOMAIN s}

RECURSIVE SumSeq(_)
SumSeq(s) == IF s = <<>> THEN 0 ELSE s[1] + SumSeq(Tail(s))

\* bid rows in the records read so far
BidRows(data) == SumSeq([i \in DOMAIN data |-> Cardinality(DOMAIN data[i].bids)])

EmptyDict == [k \in {} |-> 0]

\* ------------------------------------------------------ bid matrix builder
\* all_papers = set(); for team in teams_data: all_papers.update(team['bids'].keys())
CollectPaperSet(data) == UNION {DOMAIN data[i].bids : i \in DOMAIN data}

\* sorted(list(all_papers))
RECURSIVE SortedList(_)
SortedList(S) ==
    IF S = {} THEN <<>>
    ELSE LET m == CHOOSE m \in S : \A y \in S : m <= y
         IN <<m>> \o SortedList(S \ {m})

\* teams = [t['team_name'] for t in teams_data]
TeamNames(data) == [i \in DOMAIN data |-> data[i].team_name]

\* faulty variant: an unbid paper defaults to 1
BidRowDefaultOne(bids, papers) ==
    [p \in Range(papers) |-> IF p \in DOMAIN bids THEN bids[p] ELSE 1]

\* {paper: team_data['bids'].get(paper, 0) for paper in all_papers}
BidRow(bids, papers) ==
    [p \in Range(papers) |-> IF p \in DOMAIN bids THEN bids[p] ELSE 0]

\* for team_data in teams_data: bid_matrix[team] = {...}
\* (a dict assignment: a later record with the same name replaces the row)
RECURSIVE BuildBidMatrix(_, _)
BuildBidMatrix(data, papers) ==
    IF data = <<>> THEN EmptyDict
    ELSE LET n     == Len(data)
             prev  == BuildBidMatrix(SubSeq(data, 1, n - 1), papers)
             team  == data[n].team_name
         IN [t \in DOMAIN prev \cup {team} |->
                IF t = team THEN BidRow(data[n].bids, papers) ELSE prev[t]]

\* ------------------------------------------------------- model construction
\* The backend numbers its variables in the order addVar is called:
\* for team in teams: for paper in all_papers.
VarIndex(i, j, nPapers) == (i - 1) * nPapers + j

LastIndexOf(names, t) ==
    CHOOSE i \in DOMAIN names :
        names[i] = t /\ \A k \in DOMAIN names : names[k] = t => k <= i

\* x[team, paper] = model.addVar(...): every iteration adds a variable to the
\* model; the dict keeps, per key, the variable of the last iteration with it.
AddVars(names, papers) ==
    [key \in {<<names[i], papers[j]>> : i \in DOMAIN names, j \in DOMAIN papers} |->
        LET j == CHOOSE j \in DOMAIN papers : papers[j] = key[2]
        IN VarIndex(LastIndexOf(names, key[1]), j, Len(papers))]

\* quicksum(bid_matrix[team][paper] * x[team, paper] for team in teams for paper in all_papers)
ObjectiveTerms(names, papers, matrix, xs) ==
    [n \in 1..(Len(names) * Len(papers)) |->
        LET i == ((n - 1) \div Len(papers)) + 1
            j == ((n - 1) % Len(papers)) + 1
        IN [coef |-> matrix[names[i]][papers[j]], var |-> xs[names[i], papers[j]]]]

\* faulty variant: each team gets at most one paper
TeamConstrsAtMost(names, papers, xs) ==
    [i \in DOMAIN names |->
        [terms |-> [j \in DOMAIN papers |-> xs[names[i], papers[j]]],
         sense |-> "<=", rhs |-> 1]]

\* for team in teams: model.addConstr(quicksum(x[team, paper] for paper in all_papers) == 1)
TeamConstrs(names, papers, xs) ==
    [i \in DOMAIN names |->
        [terms |-> [j \in DOMAIN papers |-> xs[names[i], papers[j]]],
         sense |-> "==", rhs |-> 1]]

\* faulty variant: a paper may go to every team
PaperConstrsUncapped(names, papers, xs) ==
    [j \in DOMAIN papers |->
        [terms |-> [i \in DOMAIN names |-> xs[names[i], papers[j]]],
         sense |-> "<=", rhs |-> Len(names)]]

\* faulty variant: the loop stops one paper short
PaperConstrsSkipLast(names, papers, xs) ==
    [j \in 1..(Len(papers) - 1) |->
        [terms |-> [i \in DOMAIN names |-> xs[names[i], papers[j]]],
         sense |-> "<=", rhs |-> 1]]

\* for paper in all_papers: model.addConstr(quicksum(x[team, paper] for team in teams) <= 1)
PaperConstrs(names, papers, xs) ==
    [j \in DOMAIN papers |->
        [terms |-> [i \in DOMAIN names |-> xs[names[i], papers[j]]],
         sense |-> "<=", rhs |-> 1]]

\* ------------------------------------------------------------------ backend
\* model.optimize() on a binary program.  A 0/1 valuation of the variables
\* 1..n is written as the set of the variables it sets to 1.
Valuations(n) == SUBSET (1..n)

\* the solved values, as the program reads them (x[team, paper].X)
ValuesOf(n, ones) == [v \in 1..n |-> IF v \in ones THEN 1 ELSE 0]

\* a constraint's left-hand side: one unit per term whose variable is 1
LhsValue(c, ones) == Cardinality({k \in DOMAIN c.terms : c.terms[k] \in ones})

Satisfies(c, ones) ==
    IF c.sense = "==" THEN LhsValue(c, ones) = c.rhs ELSE LhsValue(c, ones) <= c.rhs

RECURSIVE ObjUpTo(_, _, _)
ObjUpTo(obj, ones, k) ==
    IF k = 0 THEN 0
    ELSE (IF obj[k].var \in ones THEN obj[k].coef ELSE 0) + ObjUpTo(obj, ones, k - 1)

\* the objective's value at a valuation
ObjValue(obj, ones) == ObjUpTo(obj, ones, Len(obj))

\* The valuations worth trying.  A variable that no constraint mentions may
\* take either value in any solution.  Among the others, an "== 1" constraint
\* over unit terms holds only when exactly one of its terms is 1, so a feasible
\* valuation is one term picked per equality constraint, plus any values for
\* the variables only inequalities mention.  Every feasible valuation is of
\* this shape; FeasibleSet still tests every constraint on each.
ConstrainedVars(cs) == UNION {Range(cs[k].terms) : k \in DOMAIN cs}

EqualityVars(cs) ==
    UNION {Range(cs[k].terms) : k \in {k \in DOMAIN cs : cs[k].sense = "=="}}

RECURSIVE OnePerEquality(_, _)
OnePerEquality(cs, k) ==
    IF k = 0 THEN {{}}
    ELSE IF cs[k].sense = "=="
         THEN {U \cup {cs[k].terms[j]} : U \in OnePerEquality(cs, k - 1), j \in DOMAIN cs[k].terms}
         ELSE OnePerEquality(cs, k - 1)

Candidates(cs) ==
    {U \cup W : U \in OnePerEquality(cs, Len(cs)),
                W \in SUBSET (ConstrainedVars(cs) \ EqualityVars(cs))}

FeasibleSet(n, cs) ==
    LET core == {ones \in Candidates(cs) : \A k \in DOMAIN cs : Satisfies(cs[k], ones)}
    IN {U \cup W : U \in core, W \in SUBSET ((1..n) \ ConstrainedVars(cs))}

MaxOf(S) == CHOOSE m \in S : \A y \in S : y <= m

\* the feasible valuations of greatest objective value
BestOf(F, obj) ==
    IF F = {} THEN {}
    ELSE LET best == MaxOf({ObjValue(obj, r) : r \in F})
         IN {s \in F : ObjValue(obj, s) = best}

\* -------------------------------------------------------- result extraction
ExceedsHalf(v) == 2 * v > 1

\* the papers of the team's row, by position in all_papers, whose variable's X > 0.5
SelectedPositions(team, papers, xs, vals) ==
    {j \in DOMAIN papers : ExceedsHalf(vals[xs[team, papers[j]]])}

MinOf(S) == CHOOSE m \in S : \A y \in S : m <= y

\* for team_data in teams_data: for paper in all_papers:
\*     if x[team, paper].X > 0.5: assignments.append({...}); break
RECURSIVE ExtractAssignments(_, _, _, _, _)
ExtractAssignments(data, papers, xs, vals, matrix) ==
    IF data = <<>> THEN <<>>
    ELSE LET n    == Len(data)
             prev == ExtractAssignments(SubSeq(data, 1, n - 1), papers, xs, vals, matrix)
             team == data[n].team_name
             sel  == SelectedPositions(team, papers, xs, vals)
         IN IF sel = {} THEN prev
            ELSE Append(prev, [Team_Name      |-> team,
                               Assigned_Paper |-> papers[MinOf(sel)],
                               Bid_Value      |-> matrix[team][papers[MinOf(sel)]]])

\* ------------------------------------------------------------------- state
Pending == [kind |-> "pending"]

Init ==
    /\ variant = "unset"
    /\ teams_data = <<>>
    /\ pc = "load"
    /\ all_papers = <<>>
    /\ teams = <<>>
    /\ bid_matrix = EmptyDict
    /\ numVars = 0
    /\ x = EmptyDict
    /\ objective = <<>>
    /\ constrs = <<>>
    /\ status = "LOADED"
    /\ X = EmptyDict
    /\ objVal = 0
    /\ console = ""
    /\ ret = Pending

\* load_all_bids / run_assignment: for filepath in files: teams_data.append(read_bid_file(filepath))
LoadBidFile ==
    /\ pc = "load"
    /\ Len(teams_data) < MaxTeams
    /\ \E data \in TeamRecords :
          /\ data.team_name <= MaxName(teams_data) + 1
          /\ BidRows(teams_data) + Cardinality(DOMAIN data.bids) <= MaxBidRows
          /\ teams_data' = Append(teams_data, data)
    /\ UNCHANGED <<variant, pc, all_papers, teams, bid_matrix, numVars, x, objective,
                   constrs, status, X, objVal, console, ret>>

\* main: if len(teams_data) == 0: print(...); return
MainNoBids ==
    /\ pc = "load"
    /\ Len(teams_data) = 0
    /\ variant' = "main"
    /\ console' = "Error: No valid bid files found."
    /\ pc' = "done"
    /\ UNCHANGED <<teams_data, all_papers, teams, bid_matrix, numVars, x,
                   objective, constrs, status, X, objVal, ret>>

\* all_papers, teams and bid_matrix, as both cores build them
BuildMatrix ==
    /\ all_papers' = SortedList(CollectPaperSet(teams_data))
    /\ teams' = TeamNames(teams_data)
    /\ bid_matrix' = BuildBidMatrix(teams_data, SortedList(CollectPaperSet(teams_data)))
    /\ pc' = "model"
    /\ UNCHANGED <<teams_data, numVars, x, objective, constrs, status, X, objVal,
                   console, ret>>

\* main: assignments, obj_val = optimize_assignment(teams_data, ...)
CallOptimizeAssignment ==
    /\ pc = "load"
    /\ Len(teams_data) > 0
    /\ variant' = "main"
    /\ BuildMatrix

\* run_assignment: result_df, total_value = assign_papers(teams_data)
CallAssignPapers ==
    /\ pc = "load"
    /\ variant' = "complete"
    /\ BuildMatrix

\* variables, objective, the two constraint families
BuildModel ==
    /\ pc = "model"
    /\ LET xs == AddVars(teams, all_papers)
       IN /\ x' = xs
          /\ numVars' = Len(teams) * Len(all_papers)
          /\ objective' = ObjectiveTerms(teams, all_papers, bid_matrix, xs)
          /\ constrs' = TeamConstrs(teams, all_papers, xs) \o PaperConstrs(teams, all_papers, xs)
    /\ pc' = "optimize"
    /\ UNCHANGED <<variant, teams_data, all_papers, teams, bid_matrix, status, X,
                   objVal, console, ret>>

\* model.optimize(): INFEASIBLE when no 0/1 values satisfy the constraints,
\* else OPTIMAL with one of the best solutions
Optimize ==
    /\ pc = "optimize"
    /\ LET best == BestOf(FeasibleSet(numVars, constrs), objective)
       IN IF best = {}
          THEN /\ status' = "INFEASIBLE"
               /\ UNCHANGED <<X, objVal>>
          ELSE /\ status' = "OPTIMAL"
               /\ \E ones \in best :
                     /\ X' = ValuesOf(numVars, ones)
                     /\ objVal' = ObjValue(objective, ones)
    /\ pc' = "solved"
    /\ UNCHANGED <<variant, teams_data, all_papers, teams, bid_matrix, numVars, x,
                   objective, constrs, console, ret>>

\* if model.status == GRB.OPTIMAL: ... return assignments, model.objVal
ReturnAssignments ==
    /\ pc = "solved"
    /\ status = "OPTIMAL"
    /\ ret' = [kind        |-> "result",
               assignments |-> ExtractAssignments(teams_data, all_papers, x, X, bid_matrix),
               objVal      |-> objVal]
    /\ console' = IF variant = "main" THEN "Optimal solution found!" ELSE console
    /\ pc' = "done"
    /\ UNCHANGED <<variant, teams_data, all_papers, teams, bid_matrix, numVars, x,
                   objective, constrs, status, X, objVal>>

\* optimize_assignment: elif model.status == GRB.INFEASIBLE: print(...); return None, None
ReturnInfeasible ==
    /\ pc = "solved"
    /\ variant = "main"
    /\ status = "INFEASIBLE"
    /\ console' = "Error: Problem is infeasible (more teams than papers?)"
    /\ ret' = [kind |-> "None"]
    /\ pc' = "done"
    /\ UNCHANGED <<variant, teams_data, all_papers, teams, bid_matrix, numVars, x,
                   objective, constrs, status, X, objVal>>

\* assign_papers: if model.status != GRB.OPTIMAL: raise Exception(f"... status {model.status}")
RaiseOptimizationFailed ==
    /\ pc = "solved"
    /\ variant = "complete"
    /\ status # "OPTIMAL"
    /\ ret' = [kind |-> "Exception", message |-> status]
    /\ pc' = "done"
    /\ UNCHANGED <<variant, teams_data, all_papers, teams, bid_matrix, numVars, x,
                   objective, constrs, status, X, objVal, console>>

Next ==
    \/ LoadBidFile
    \/ MainNoBids
    \/ CallOptimizeAssignment
    \/ CallAssignPapers
    \/ BuildModel
    \/ Optimize
    \/ ReturnAssignments
    \/ ReturnInfeasible
    \/ RaiseOptimizationFailed

\* The backend decides every model: the program sets no limit on it and a
\* binary program is bounded.
Spec == Init /\ [][Next]_vars

\* ------------------------------------------- a backend that stops undecided
\* model.optimize() ends with a status that is neither OPTIMAL nor INFEASIBLE
\* (the run was interrupted)
OptimizeInterrupted ==
    /\ pc = "optimize"
    /\ status' = "INTERRUPTED"
    /\ pc' = "solved"
    /\ UNCHANGED <<variant, teams_data, all_papers, teams, bid_matrix, numVars, x,
                   objective, constrs, X, objVal, console, ret>>

\* optimize_assignment: else: print(f"Optimization ended with status: ..."); return None, None
ReturnOtherStatus ==
    /\ pc = "solved"
    /\ variant = "main"
    /\ status \notin {"OPTIMAL", "INFEASIBLE"}
    /\ console' = "Optimization ended with status"
    /\ ret' = [kind |-> "None"]
    /\ pc' = "done"
    /\ UNCHANGED <<variant, teams_data, all_papers, teams, bid_matrix, numVars, x,
                   objective, constrs, status, X, objVal>>

NextInterruptible == Next \/ OptimizeInterrupted \/ ReturnOtherStatus

SpecInterruptible == Init /\ [][NextInterruptible]_vars

\* ------------------------------- extraction over any matrix of solved values
\* The status is OPTIMAL and the solved values are any 0/1 values: the
\* extraction loop as a function of the values it reads.
OptimizeAnyValues ==
    /\ pc = "optimize"
    /\ \E ones \in Valuations(numVars) :
          /\ X' = ValuesOf(numVars, ones)
          /\ objVal' = ObjValue(objective, ones)
    /\ status' = "OPTIMAL"
    /\ pc' = "solved"
    /\ UNCHANGED <<variant, teams_data, all_papers, teams, bid_matrix, numVars, x,
                   objective, constrs, console, ret>>

NextExtract ==
    \/ LoadBidFile
    \/ MainNoBids
    \/ CallOptimizeAssignment
    \/ CallAssignPapers
    \/ BuildModel
    \/ OptimizeAnyValues
    \/ ReturnAssignments

SpecExtract == Init /\ [][NextExtract]_vars

\* ------------------------------------------------------------------ claims
\* sanity of the backend model: the candidates miss no feasible valuation
CandidatesComplete ==
    pc = "optimize" =>
        FeasibleSet(numVars, constrs) =
            {ones \in Valuations(numVars) : \A k \in DOMAIN constrs : Satisfies(constrs[k], ones)}

NumTeams == Len(teams_data)
NumPapers == Cardinality(CollectPaperSet(teams_data))

DistinctNames ==
    \A i, j \in DOMAIN teams_data :
        teams_data[i].team_name = teams_data[j].team_name => i = j

\* the bid record i declares for paper p, 0 when it declares none
DeclaredBid(i, p) ==
    IF p \in DOMAIN teams_data[i].bids THEN teams_data[i].bids[p] ELSE 0

SolveRan == pc \in {"solved", "done"} /\ status # "LOADED"

Returned == pc = "done" /\ ret.kind = "result"

\* what reaches the caller of each core when the status is INFEASIBLE
InfeasibleOutcome(v) ==
    IF v = "main" THEN [kind |-> "None"]
    ELSE [kind |-> "Exception", message |-> "INFEASIBLE"]

\* C1: with more team records than distinct papers the solve ends INFEASIBLE
\* and the caller gets no assignment list.
C1_MoreTeamsThanPapersInfeasible ==
    (SolveRan /\ NumTeams > NumPapers) =>
        /\ status = "INFEASIBLE"
        /\ pc = "done" => ret = InfeasibleOutcome(variant)

\* C1 witness: distinct teams, fewer papers than teams, the run has ended INFEASIBLE.
C1_Witness ==
    /\ pc = "done"
    /\ DistinctNames
    /\ NumPapers >= 1
    /\ NumTeams > NumPapers
    /\ status = "INFEASIBLE"

\* C2: with at least as many distinct papers as team records and bids that
\* are all non-negative, the solve ends OPTIMAL and returns an assignment list
\* with an objective value.
C2_EnoughPapersOptimal ==
    (SolveRan /\ NumPapers >= NumTeams
       /\ \A i \in DOMAIN teams_data : \A p \in DOMAIN teams_data[i].bids :
             teams_data[i].bids[p] >= 0) =>
        /\ status = "OPTIMAL"
        /\ pc = "done" => ret.kind = "result"

\* C3: in a returned assignment list no paper is the assigned paper of two records.
C3_PaperAssignedOnce ==
    Returned =>
        \A i, j \in DOMAIN ret.assignments :
            ret.assignments[i].Assigned_Paper = ret.assignments[j].Assigned_Paper => i = j

\* C3 witness: a returned list with two records whose teams both bid most on the same paper.
C3_Witness ==
    /\ Returned
    /\ Len(ret.assignments) >= 2
    /\ \E p \in CollectPaperSet(teams_data) :
          \A i \in DOMAIN teams_data :
              /\ p \in DOMAIN teams_data[i].bids
              /\ teams_data[i].bids[p] = MaxBid

\* C4: after an OPTIMAL solve every input team identifier is the Team_Name of
\* exactly one record of the returned list.
C4_EveryTeamOnce ==
    Returned =>
        \A i \in DOMAIN teams_data :
            Cardinality({k \in DOMAIN ret.assignments :
                            ret.assignments[k].Team_Name = teams_data[i].team_name}) = 1

\* C4 witness: a returned list for two teams, one of which bid on nothing.
C4_Witness ==
    /\ Returned
    /\ NumTeams >= 2
    /\ \E i \in DOMAIN teams_data : DOMAIN teams_data[i].bids = {}

\* C5: the returned objective value is the sum of the records' Bid_Value, and
\* each Bid_Value is the bid the record's team declared for its assigned paper,
\* 0 when it declared none.
C5_ObjectiveIsSumOfBidValues ==
    Returned =>
        /\ ret.objVal = SumSeq([k \in DOMAIN ret.assignments |-> ret.assignments[k].Bid_Value])
        /\ \A k \in DOMAIN ret.assignments : \A i \in DOMAIN teams_data :
              teams_data[i].team_name = ret.assignments[k].Team_Name =>
                  ret.assignments[k].Bid_Value = DeclaredBid(i, ret.assignments[k].Assigned_Paper)

\* C5 witness: a returned list of positive objective value in which one team
\* got a paper it declared no bid for.
C5_Witness ==
    /\ Returned
    /\ ret.objVal > 0
    /\ \E k \in DOMAIN ret.assignments : \E i \in DOMAIN teams_data :
          /\ teams_data[i].team_name = ret.assignments[k].Team_Name
          /\ ret.assignments[k].Assigned_Paper \notin DOMAIN teams_data[i].bids

\* C6: when two team records carry the same identifier the core surfaces a
\* data-integrity error and returns no assignment, and never merges the two
\* records into one matrix row or one set of decision variables.
C6_DuplicateNamesRejected ==
    (pc # "load" /\ ~DistinctNames) =>
        /\ Cardinality(DOMAIN bid_matrix) = NumTeams
        /\ pc \in {"optimize", "solved", "done"} =>
               Cardinality(DOMAIN x) = NumTeams * NumPapers
        /\ pc = "done" => ret.kind = "DataIntegrityError"

\* C7: an INFEASIBLE solve and a solve ending with another non-OPTIMAL status
\* reach the caller as distinguishable outcomes, neither with an assignment list.
C7_InfeasibleDistinctFromOtherFailure ==
    (pc = "done" /\ status \notin {"LOADED", "OPTIMAL"}) =>
        /\ ret.kind # "result"
        /\ status # "INFEASIBLE" => ret # InfeasibleOutcome(variant)

\* C8: with no team records, or with no paper named by any record, an
\* empty-input error is surfaced before any variable or constraint is created,
\* and the run never reaches the solver.
C8_EmptyInputRejected ==
    (pc # "load" /\ (NumTeams = 0 \/ NumPapers = 0)) =>
        /\ numVars = 0
        /\ constrs = <<>>
        /\ status = "LOADED"
        /\ pc = "done" =>
               \/ ret.kind = "EmptyInputError"
               \/ console = "Error: No valid bid files found."

\* C9: before any decision variable is created the bid matrix holds, for every
\* input team and every paper of the sorted union, that team's declared bid
\* when it declared one and 0 otherwise.
C9_BidMatrixDense ==
    pc = "model" =>
        /\ numVars = 0
        /\ all_papers = SortedList(CollectPaperSet(teams_data))
        /\ \A i \in DOMAIN teams_data : \A p \in CollectPaperSet(teams_data) :
              /\ teams_data[i].team_name \in DOMAIN bid_matrix
              /\ p \in DOMAIN bid_matrix[teams_data[i].team_name]
              /\ bid_matrix[teams_data[i].team_name][p] = DeclaredBid(i, p)

\* C10: extraction emits, for each team, a record for the first paper in
\* sorted order whose solved value exceeds 0.5, and when no value of a team's
\* row exceeds 0.5 it surfaces a defect instead of returning a list without
\* that team.
C10_ExtractionFirstOrDefect ==
    (pc = "done" /\ status = "OPTIMAL") =>
        \A i \in DOMAIN teams_data :
            LET team == teams_data[i].team_name
                sel  == SelectedPositions(team, all_papers, x, X)
            IN IF sel = {}
               THEN ret.kind = "defect"
               ELSE /\ ret.kind = "result"
                    /\ \E k \in DOMAIN ret.assignments :
                          /\ ret.assignments[k].Team_Name = team
                          /\ ret.assignments[k].Assigned_Paper = all_papers[MinOf(sel)]

\* -------------------------------------------------------- supporting checks
\* On runs whose team names are pairwise distinct, the statements of C2 and C9
\* hold: their failures come from records that share a name.
DistinctNames_EnoughPapersOptimal == DistinctNames => C2_EnoughPapersOptimal

DistinctNames_BidMatrixDense == DistinctNames => C9_BidMatrixDense

\* With the backend of Spec every team's row has a value above 0.5 whenever
\* the status is OPTIMAL, so the extraction never meets a row without one.
ExactBackend_RowAlwaysSelected ==
    (pc \in {"solved", "done"} /\ status = "OPTIMAL") =>
        \A i \in DOMAIN teams_data :
            SelectedPositions(teams_data[i].team_name, all_papers, x, X) # {}

====
